---- MODULE Spec2Model ----
(***************************************************************************)
(* Model of xtcav/ShotToShotCharacterization.py: the class                 *)
(* ShotToShotCharacterization, its session setup (SetDataSource and the    *)
(* reference loaders), the per-event pipeline (processEvent /              *)
(* setImageProfile) and the result accessors.                              *)
(*                                                                         *)
(* The instance is the record `self`; a Python attribute that has never    *)
(* been assigned is Unset (reading it raises AttributeError), None is      *)
(* Python's None and Some(v) is any other value.  Functions of the modules *)
(* Utils, UtilsPsana, SplittingUtils, DarkBackground, LasingOffReference   *)
(* and CalibrationPaths are not part of the file: their results are either *)
(* inputs of the event (drawn from small sets) or uninterpreted terms that *)
(* record the arguments they were called with.                             *)
(***************************************************************************)
EXTENDS Integers, Sequences, FiniteSets, TLC

VARIABLES self, ret, warned, ctor

vars == <<self, ret, warned, ctor>>

-----------------------------------------------------------------------------
(* Python values *)

None == [k |-> "None"]

Unset == [k |-> "unset"]

Some(v) == [k |-> "val", v |-> v]

Raised(e) == [k |-> "raise", v |-> e]

(* truth value of a number or string held by a processing parameter or a path:
   None, 0, 0.0 and '' are false *)
FalsyScalars == {"0", "0.0", ""}

Truthy(x) == x.k = "val" /\ x.v \notin FalsyScalars

(* truth value of num_bunches (an int or None) *)
TruthyInt(x) == x.k = "val" /\ x.v # 0

(* truth value of an object reference (a namedtuple, a reference object) *)
TruthyObj(x) == x.k = "val"

-----------------------------------------------------------------------------
(* Bounds of the model *)

MaxEvents == 2

ProfLen == 5

-----------------------------------------------------------------------------
(* The tunable processing parameters (scalars are written as Python writes
   them; only equality and truth value are used on them) *)

ParamNames == {"medianfilter", "snrfilter", "roiwaistthres", "roiexpand",
               "islandsplitmethod", "islandsplitpar1", "islandsplitpar2"}

DefaultValue == [medianfilter |-> "3", snrfilter |-> "10", roiwaistthres |-> "0.2",
                 roiexpand |-> "2.5", islandsplitmethod |-> "scipylabel",
                 islandsplitpar1 |-> "3.0", islandsplitpar2 |-> "5.0"]

DefaultNumBunches == 1

(* values a caller may pass for each parameter: a false one and a true one *)
CallerFalsy == [medianfilter |-> "0", snrfilter |-> "0", roiwaistthres |-> "0.0",
                roiexpand |-> "0.0", islandsplitmethod |-> "",
                islandsplitpar1 |-> "0.0", islandsplitpar2 |-> "0.0"]

CallerValue == [medianfilter |-> "5", snrfilter |-> "8", roiwaistthres |-> "0.1",
                roiexpand |-> "2.0", islandsplitmethod |-> "contourLabel",
                islandsplitpar1 |-> "4.0", islandsplitpar2 |-> "6.0"]

CallerChoices(p) == {None, Some(CallerFalsy[p]), Some(CallerValue[p])}

CallerNumBunches == {None, Some(0), Some(1), Some(2)}

CallerDarkPaths == {None, Some("caller/pedestals")}

CallerLasingOffPaths == {None, Some("caller/lasingoffreference")}

-----------------------------------------------------------------------------
(* The calibration store: what CalibrationPaths.findCalFileName can return and
   what DarkBackground.Load / LasingOffReference.Load read from a path *)

FoundDarkPaths == {None, Some("calib/pedestals")}

FoundLasingOffPaths == {None, Some("calib/lasingoffreference")}

DarkBackgroundLoad(path) == Some([fn |-> "DarkBackground.Load", path |-> path.v])

(* parameters recorded in the lasing-off reference stored at a path *)
ReferenceParameters(path) ==
    [num_bunches |-> IF path.v = "caller/lasingoffreference" THEN 2 ELSE 1,
     par |-> [medianfilter |-> "4", snrfilter |-> "12", roiwaistthres |-> "0.3",
              roiexpand |-> "3.0", islandsplitmethod |-> "autothreshold",
              islandsplitpar1 |-> "1.0", islandsplitpar2 |-> "2.0"],
     darkreferencepath |-> Some("reference/pedestals")]

LasingOffReferenceLoad(path) ==
    Some([fn |-> "LasingOffReference.Load", path |-> path.v,
          parameters |-> ReferenceParameters(path),
          averaged_profiles |-> [fn |-> "averaged_profiles", path |-> path.v]])

-----------------------------------------------------------------------------
(* Outcome of a method body: the instance after it, the warnings it emitted,
   and whether it raised *)

Ok(s, w) == [s |-> s, warn |-> w, exc |-> None]

Raise(s, w, e) == [s |-> s, warn |-> w, exc |-> Some(e)]

-----------------------------------------------------------------------------
(* __init__ (lines 38-77) with the default experiment='' and runs='': the
   arguments are stored, _envset is False and nothing else is assigned.  A
   constructor given experiment and runs goes on to SetDataSource, which is
   the action SetDataSource below taken from this state (SetExperiment is the
   same call after storing experiment and runs, which nothing else reads). *)

CtorArgs(parset) ==
    [num_bunches : CallerNumBunches,
     par : parset,
     darkreferencepath : CallerDarkPaths,
     lasingoffreferencepath : CallerLasingOffPaths]

Construct(c) ==
    [num_bunches |-> c.num_bunches,
     par |-> c.par,
     darkreferencepath |-> c.darkreferencepath,
     lasingoffreferencepath |-> c.lasingoffreferencepath,
     envset |-> FALSE,
     roixtcav |-> Unset, global_calibration |-> Unset, saturation_value |-> Unset,
     darkreference |-> Unset, lasingoffreference |-> Unset,
     rawimage |-> Unset, currentevent |-> Unset,
     image_profile |-> Unset, processed_image |-> Unset,
     pulse_characterization |-> Unset]

-----------------------------------------------------------------------------
(* Session setup *)

(* what the camera of the run reports (UtilsPsana.GetXTCAVImageROI,
   GetGlobalXTCAVCalibration, GetCameraSaturationValue) *)
CameraSaturationValue == 2

SetEnvironment(s) ==
    [s EXCEPT !.roixtcav = Some([fn |-> "GetXTCAVImageROI"]),
              !.global_calibration = Some([fn |-> "GetGlobalXTCAVCalibration"]),
              !.saturation_value = Some(CameraSaturationValue),
              !.envset = TRUE]

(* the warning texts of lines 129 and 150 are formatted with
   self._currentevent.run(): that read raises AttributeError as long as no
   event has set _currentevent *)
WarnRunNotFound(s, w) ==
    IF s.currentevent = Unset THEN Raise(s, {}, "AttributeError") ELSE Ok(s, {w})

LoadDarkReference(s, found) ==
    LET s1 == [s EXCEPT !.darkreference = None] IN
    IF ~Truthy(s1.darkreferencepath)
    THEN IF ~s1.envset
         THEN Ok(s1, {})
         ELSE LET s2 == [s1 EXCEPT !.darkreferencepath = found] IN
              IF ~Truthy(s2.darkreferencepath)
              THEN WarnRunNotFound(s2, "DarkReferenceNotFound")
              ELSE Ok([s2 EXCEPT !.darkreference = DarkBackgroundLoad(s2.darkreferencepath)], {})
    ELSE Ok([s1 EXCEPT !.darkreference = DarkBackgroundLoad(s1.darkreferencepath)], {})

LoadDefaultProcessingParameters(s) ==
    [s EXCEPT !.num_bunches = IF ~TruthyInt(s.num_bunches)
                              THEN Some(DefaultNumBunches) ELSE s.num_bunches,
              !.par = [p \in ParamNames |->
                         IF ~Truthy(s.par[p]) THEN Some(DefaultValue[p]) ELSE s.par[p]]]

(* line 184: whether the bunch-count warning is emitted *)
NumBunchesConflict(s, refnb) ==
    TruthyInt(s.num_bunches) /\ s.num_bunches.v # refnb

LoadLasingOffReferenceParametersAdding(s) ==
    LET ref == s.lasingoffreference.v.parameters IN
    Ok([s EXCEPT !.num_bunches = IF TruthyInt(s.num_bunches)
                                 THEN Some(s.num_bunches.v + ref.num_bunches)
                                 ELSE Some(ref.num_bunches)], {})

LoadLasingOffReferenceParameters(s) ==
    LET ref == s.lasingoffreference.v.parameters
        w == IF NumBunchesConflict(s, ref.num_bunches) THEN {"NumBunchesDiffer"} ELSE {}
        s1 == [s EXCEPT
                 !.num_bunches = Some(ref.num_bunches),
                 !.par = [p \in ParamNames |->
                            IF ~Truthy(s.par[p]) THEN Some(ref.par[p]) ELSE s.par[p]],
                 !.darkreferencepath = IF ~Truthy(s.darkreferencepath)
                                       THEN ref.darkreferencepath
                                       ELSE s.darkreferencepath]
    IN Ok(s1, w)

LoadLasingOffReference(s, found) ==
    LET s1 == [s EXCEPT !.lasingoffreference = None] IN
    IF ~Truthy(s1.lasingoffreferencepath)
    THEN IF ~s1.envset
         THEN Ok(s1, {})
         ELSE LET s2 == [s1 EXCEPT !.lasingoffreferencepath = found] IN
              IF ~Truthy(s2.lasingoffreferencepath)
              THEN LET o == WarnRunNotFound(s2, "LasingOffReferenceNotFound") IN
                   IF o.exc # None THEN o
                   ELSE Ok(LoadDefaultProcessingParameters(s2), o.warn)
              ELSE LoadLasingOffReferenceParameters(
                     [s2 EXCEPT !.lasingoffreference =
                                   LasingOffReferenceLoad(s2.lasingoffreferencepath)])
    ELSE LoadLasingOffReferenceParameters(
           [s1 EXCEPT !.lasingoffreference =
                         LasingOffReferenceLoad(s1.lasingoffreferencepath)])

(* lines 86-95 after the data source is opened: SetEnvironment, then the two
   loaders; an exception of the first loader skips the second *)
SetDataSourceBody(s, foundDark, foundLasingOff) ==
    LET o1 == LoadDarkReference(SetEnvironment(s), foundDark) IN
    IF o1.exc # None THEN o1
    ELSE LET o2 == LoadLasingOffReference(o1.s, foundLasingOff) IN
         [s |-> o2.s, warn |-> o1.warn \cup o2.warn, exc |-> o2.exc]

(* the value a call hands back: the exception it raised, else its result *)
Outcome(op, arg, o, result) ==
    [op |-> op, arg |-> arg, val |-> IF o.exc # None THEN Raised(o.exc.v) ELSE result]

-----------------------------------------------------------------------------
(* Events.  An event carries the camera image (or none) and what the
   functions of Utils / UtilsPsana / SplittingUtils compute from it:
     shot_valid     GetShotToShotParameters(...).valid
     contains_data  second result of DenoiseImage
     xN, yN         size of the ROI found by FindROI
     stats          the profiles ProcessXTCAVImage extracts, one per bunch
     phys_valid, xfsPerPix   CalculatePhyscialUnits
     pulse          result of ProcessLasingSingleShot (None: reconstruction failed) *)

MIN_ROI_SIZE == 3

(* two-pixel images whose maximum is below, at and above the saturation value *)
RawImages ==
    {[pix |-> <<0, CameraSaturationValue - 1>>],
     [pix |-> <<0, CameraSaturationValue>>],
     [pix |-> <<CameraSaturationValue + 1, 0>>]}

(* np.max of the raw image *)
NpMax(img) == IF img.pix[1] >= img.pix[2] THEN img.pix[1] ELSE img.pix[2]

ProfileKinds == {"mid", "left"}

(* what the bunches of one image look like: all peaked in the middle, all
   peaked at the left edge, or alternating *)
StatsPatterns == ProfileKinds \cup {"mixed"}

BunchKind(pattern, j) ==
    IF pattern = "mixed" THEN (IF j % 2 = 1 THEN "mid" ELSE "left") ELSE pattern

PulseKinds == {"single", "double"}

Reverse(seq) == [i \in 1..Len(seq) |-> seq[Len(seq) + 1 - i]]

Abs(x) == IF x < 0 THEN -x ELSE x

Min(a, b) == IF a <= b THEN a ELSE b

Max(a, b) == IF a >= b THEN a ELSE b

RECURSIVE Gcd(_, _)
Gcd(a, b) == IF b = 0 THEN a ELSE Gcd(b, a % b)

(* a float that is the exact quotient n/d; d = 0 stands for inf and nan, the
   results of numpy's float division by zero *)
Frac(n, d) ==
    IF d = 0 THEN [n |-> IF n > 0 THEN 1 ELSE IF n < 0 THEN -1 ELSE 0, d |-> 0]
    ELSE LET g == Gcd(Abs(n), Abs(d))
             sg == IF d < 0 THEN -1 ELSE 1
         IN [n |-> sg * (n \div g), d |-> sg * (d \div g)]

RECURSIVE SumSeq(_)
SumSeq(seq) == IF seq = <<>> THEN 0 ELSE Head(seq) + SumSeq(Tail(seq))

(* one ImageStats record as ProcessXTCAVImage returns it: a current profile
   with one maximum and the slice statistics, all of xN samples *)
ImageStats(kind, n) ==
    LET c == IF kind = "mid" THEN (n + 1) \div 2 ELSE 2 IN
    [xProfile |-> [i \in 1..n |-> n - Abs(i - c)],
     yCOMslice |-> [i \in 1..n |-> i],
     yRMSslice |-> [i \in 1..n |-> 2 * i + 1],
     xCOM |-> c, yCOM |-> 1]

EventSpace ==
    [id : 1..MaxEvents,
     img : {None} \cup {Some(i) : i \in RawImages},
     shot_valid : BOOLEAN,
     contains_data : BOOLEAN,
     xN : {MIN_ROI_SIZE - 1, ProfLen},
     yN : {MIN_ROI_SIZE - 1, MIN_ROI_SIZE},
     stats : StatsPatterns,
     phys_valid : BOOLEAN,
     xfsPerPix : {-1, 1},
     pulse : {None} \cup {Some(k) : k \in PulseKinds}]

(* An input the pipeline never reads (because an earlier stage rejects the
   event) is fixed at its valid value, so that each behaviour of the pipeline
   is drawn once. *)
Rest(e) ==
    <<e.shot_valid, e.contains_data, e.xN, e.yN, e.stats, e.phys_valid, e.xfsPerPix, e.pulse>>

RestFrom(n, e) == SubSeq(Rest(e), n, 8)

RestDefault ==
    <<TRUE, TRUE, ProfLen, MIN_ROI_SIZE, "mid", TRUE, 1, None>>

Unread(n, e) == RestFrom(n, e) = SubSeq(RestDefault, n, 8)

EventIsRead(e) ==
    /\ e.img = None => Unread(1, e)
    /\ (e.img # None /\ NpMax(e.img.v) >= CameraSaturationValue) => Unread(1, e)
    /\ ~e.shot_valid => Unread(2, e)
    /\ ~e.contains_data => Unread(3, e)
    /\ (e.xN < MIN_ROI_SIZE \/ e.yN < MIN_ROI_SIZE) => Unread(5, e)
    /\ ~e.phys_valid => Unread(7, e)
    /\ e.xfsPerPix < 0 => Unread(8, e)

Events == {e \in EventSpace : EventIsRead(e)}

-----------------------------------------------------------------------------
(* Per-event pipeline *)

(* reading an attribute that was never assigned raises AttributeError *)
IsUnset(x) == x = Unset

(* self._num_bunches, the loop bound of line 286: the class assigns
   self.num_bunches only, never self._num_bunches *)
PrivateNumBunches(s) == Unset

(* lines 284-289: mirror the time axis and the profiles of bunches
   0 .. _num_bunches-1; the result is <<physical_units, image_stats>>*)
MirrorProfiles(s, pu, stats) ==
    IF pu.xfsPerPix < 0
    THEN IF IsUnset(PrivateNumBunches(s))
         THEN Raised("AttributeError")
         ELSE Some(<<[pu EXCEPT !.xfs = Reverse(pu.xfs)],
                     [j \in 1..Len(stats) |->
                        IF j <= PrivateNumBunches(s).v
                        THEN [stats[j] EXCEPT !.xProfile = Reverse(stats[j].xProfile),
                                              !.yCOMslice = Reverse(stats[j].yCOMslice),
                                              !.yRMSslice = Reverse(stats[j].yRMSslice)]
                        ELSE stats[j]]>>)
    ELSE Some(<<pu, stats>>)

(* line 251 *)
IsSaturated(img, saturation_value) == NpMax(img) >= saturation_value

(* line 271 *)
RoiTooSmall(roi) == roi.xN < MIN_ROI_SIZE \/ roi.yN < MIN_ROI_SIZE

(* lines 260-264: the image handed to DenoiseImage and its ROI *)
BackgroundSubtracted(s) ==
    IF TruthyObj(s.darkreference)
    THEN [fn |-> "SubtractBackground", img |-> s.rawimage.v, roi |-> s.roixtcav.v,
          dark |-> s.darkreference.v]
    ELSE s.rawimage.v

(* SplitImage and ProcessXTCAVImage give one ImageStats per bunch; without a
   resolved, positive bunch count there is no image_stats[0] for line 279 *)
HasBunches(s) == s.num_bunches.k = "val" /\ s.num_bunches.v >= 1

(* ProcessXTCAVImage(SplitImage(...), ROI): one ImageStats per bunch *)
ExtractImageStats(s, e) == [j \in 1..s.num_bunches.v |-> ImageStats(BunchKind(e.stats, j), e.xN)]

(* CalculatePhyscialUnits(ROI, [image_stats[0].xCOM, image_stats[0].yCOM], ...) *)
CalculatePhysicalUnits(e, image_stats) ==
    [valid |-> e.phys_valid, xfsPerPix |-> e.xfsPerPix,
     xfs |-> [i \in 1..e.xN |-> e.xfsPerPix * (i - image_stats[1].xCOM)]]

setImageProfile(s, e) ==
    IF IsSaturated(s.rawimage.v, s.saturation_value.v)
    THEN Ok(s, {"SaturatedImage"})
    ELSE
    LET shot_to_shot == [fn |-> "GetShotToShotParameters", event |-> e.id,
                         valid |-> e.shot_valid]
        ROI == [xN |-> e.xN, yN |-> e.yN]
        (* SplitImage(FindROI(DenoiseImage(img, ...), ...), ...) *)
        processed_image == [fn |-> "SplitImage.FindROI.DenoiseImage",
                            img |-> BackgroundSubtracted(s),
                            num_bunches |-> s.num_bunches, par |-> s.par]
        image_stats == ExtractImageStats(s, e)
        physical_units == CalculatePhysicalUnits(e, image_stats)
    IN
    IF ~shot_to_shot.valid THEN Ok(s, {})
    ELSE IF ~e.contains_data THEN Ok(s, {})
    ELSE IF RoiTooSmall(ROI) THEN Ok(s, {})
    ELSE IF ~HasBunches(s) THEN Raise(s, {}, "IndexError")
    ELSE IF ~physical_units.valid THEN Ok(s, {})
    ELSE LET m == MirrorProfiles(s, physical_units, image_stats) IN
         IF m.k = "raise" THEN Raise(s, {}, m.v)
         ELSE Ok([s EXCEPT
                    !.image_profile = Some([image_stats |-> m.v[2], roi |-> ROI,
                                            shot_to_shot |-> shot_to_shot,
                                            physical_units |-> m.v[1]]),
                    !.processed_image = Some(processed_image)], {})

(* a power trace of n samples in GW: one peak in the middle, or two peaks
   with a dip between them; `lift` raises the whole trace *)
PowerTrace(kind, n, lift) ==
    LET c == (n + 1) \div 2 IN
    [i \in 1..n |->
       lift + (IF kind = "single" THEN 2 * (n - Abs(i - c))
               ELSE IF i = c THEN 2 ELSE 2 * (n - Abs(Abs(i - c) - 1))) ]

(* the PulseCharacterization of an image profile whose bunches have the
   given power traces under the two estimators (the fields of lines 320-337
   that the accessors read) *)
PulseCharacterization(image_profile, averaged_profiles, ecom, erms) ==
    LET nb == Len(ecom) IN
    [image_profile |-> image_profile,
     averaged_profiles |-> averaged_profiles,
     num_bunches |-> nb,
     t |-> image_profile.physical_units.xfs,
     bunchdelay |-> [j \in 1..nb |-> 10 * (j - 1)],
     powerECOM |-> ecom,
     powerERMS |-> erms,
     powerAgreement |-> [j \in 1..nb |-> Frac(j - 1, 2)],
     lasingenergyperbunchECOM |-> [j \in 1..nb |-> 4 * j],
     lasingenergyperbunchERMS |-> [j \in 1..nb |-> 4 * j + 2]]

(* Utils.ProcessLasingSingleShot: a PulseCharacterization of the image
   profile against the reference's averaged profiles, or None *)
ProcessLasingSingleShot(image_profile, averaged_profiles, pulse) ==
    IF pulse = None THEN None
    ELSE LET n == Len(image_profile.physical_units.xfs)
             nb == Len(image_profile.image_stats)
         IN Some(PulseCharacterization(image_profile, averaged_profiles,
                     [j \in 1..nb |-> PowerTrace(pulse.v, n, 0)],
                     [j \in 1..nb |-> PowerTrace(pulse.v, n, 2 * j)]))

(* lines 218-244, for a pipeline whose environment is set *)
processEventReady(s, e) ==
    IF e.img = None THEN [o |-> Ok(s, {}), result |-> Some(FALSE)]
    ELSE
    LET s1 == [s EXCEPT !.rawimage = e.img, !.currentevent = Some(e.id),
                        !.pulse_characterization = None,
                        !.image_profile = None,
                        !.processed_image = None]
        o == setImageProfile(s1, e)
    IN
    IF o.exc # None THEN [o |-> o, result |-> None]
    ELSE IF ~TruthyObj(o.s.image_profile)
    THEN [o |-> Ok(o.s, o.warn \cup {"CannotCreateImageProfile"}), result |-> Some(FALSE)]
    ELSE IF IsUnset(o.s.lasingoffreference)
    THEN [o |-> Raise(o.s, o.warn, "AttributeError"), result |-> None]
    ELSE IF ~TruthyObj(o.s.lasingoffreference)
    THEN [o |-> Ok(o.s, o.warn \cup {"NoLasingOffReference"}), result |-> Some(FALSE)]
    ELSE LET pc == ProcessLasingSingleShot(o.s.image_profile.v,
                        o.s.lasingoffreference.v.averaged_profiles, e.pulse)
         IN [o |-> Ok([o.s EXCEPT !.pulse_characterization = pc], o.warn),
             result |-> Some(TruthyObj(pc))]

NotReadyReturnsFalse == Some(FALSE)

(* lines 214-216: the result of processEvent before the environment is set *)
NotReadyResult == None

processEventSetsEnvironment(s, e) == processEventReady(SetEnvironment(s), e)

processEventBody(s, e) ==
    IF ~s.envset
    THEN [o |-> Ok(s, {"EnvironmentNotSet"}), result |-> NotReadyResult]
    ELSE processEventReady(s, e)

-----------------------------------------------------------------------------
(* numpy on 1-D arrays; an array is a sequence, Python index i is element i+1 *)

(* np.argmax: the Python index of the first maximum *)
NpArgmax(seq) ==
    (CHOOSE i \in 1..Len(seq) :
        /\ \A k \in 1..Len(seq) : seq[k] <= seq[i]
        /\ \A k \in 1..(i - 1) : seq[k] < seq[i]) - 1

(* seq[start:stop] with Python's rules: a negative bound counts from the end,
   bounds are clipped to the array, and stop <= start gives the empty array *)
PyBound(i, n) == IF i < 0 THEN Max(i + n, 0) ELSE Min(i, n)

PySlice(seq, start, stop) ==
    SubSeq(seq, PyBound(start, Len(seq)) + 1, PyBound(stop, Len(seq)))

Det3(m) ==
      m[1][1] * (m[2][2] * m[3][3] - m[2][3] * m[3][2])
    - m[1][2] * (m[2][1] * m[3][3] - m[2][3] * m[3][1])
    + m[1][3] * (m[2][1] * m[3][2] - m[2][2] * m[3][1])

PowSum(x, y, k) ==
    SumSeq([i \in 1..Len(x) |->
              y[i] * (IF k = 0 THEN 1 ELSE IF k = 1 THEN x[i] ELSE IF k = 2 THEN x[i] * x[i]
                      ELSE IF k = 3 THEN x[i] * x[i] * x[i] ELSE x[i] * x[i] * x[i] * x[i])])

(* fit = np.polyfit(x, y, 2); -fit[1]/(2*fit[0]): the vertex of the
   least-squares parabola, from the normal equations by Cramer's rule.
   polyfit raises TypeError on an empty x; one or two samples give a
   rank-deficient fit, which does not arise for the arrays of this model
   (at least five samples: a window is empty or has three or more) *)
PolyfitVertex(x, y) ==
    IF Len(x) = 0 THEN Raised("TypeError")
    ELSE IF Len(x) < 3 THEN Some("rank-deficient")
    ELSE LET one == [i \in 1..Len(x) |-> 1]
             S(k) == PowSum(x, one, k)
             T(k) == PowSum(x, y, k)
             Da == Det3(<<<<T(2), S(3), S(2)>>, <<T(1), S(2), S(1)>>, <<T(0), S(1), S(0)>>>>)
             Db == Det3(<<<<S(4), T(2), S(2)>>, <<S(3), T(1), S(1)>>, <<S(2), T(0), S(0)>>>>)
         IN Some(Frac(-Db, 2 * Da))

(* the "quadratic fit around 5 pixels": lines 377, 451, 489, 545 *)
FitAround(t, y, central) ==
    PolyfitVertex(PySlice(t, central - 2, central + 3), PySlice(y, central - 2, central + 3))

AddFrac(a, b) == Frac(a.n * b.d + b.n * a.d, a.d * b.d)

RECURSIVE SumFrac(_)
SumFrac(seq) == IF seq = <<>> THEN Frac(0, 1) ELSE AddFrac(Head(seq), SumFrac(Tail(seq)))

(* np.mean of an array of floats *)
NpMean(seq) == LET s == SumFrac(seq) IN Frac(s.n, s.d * Len(seq))

-----------------------------------------------------------------------------
(* Result accessors.  None of them assigns an attribute. *)

Ret(s, w, result) == [o |-> Ok(s, w), result |-> result]

Exc(s, w, e) == [o |-> Raise(s, w, e), result |-> None]

Methods == {"RMS", "COM", "RMSCOM", "MAX"}

SupportedMethods == {"RMS", "COM", "RMSCOM"}

SelectedPowerWithoutMean(pc, method, j) ==
    IF method = "RMS" THEN pc.powerERMS[j] ELSE pc.powerECOM[j]

(* lines 365-370, 405-410: the power profile of bunch j under a method; the
   traces hold even numbers of GW, so the mean of two is a whole number *)
SelectedPower(pc, method, j) ==
    IF method = "RMS" THEN pc.powerERMS[j]
    ELSE IF method = "COM" THEN pc.powerECOM[j]
    ELSE [i \in 1..Len(pc.powerECOM[j]) |-> (pc.powerECOM[j][i] + pc.powerERMS[j][i]) \div 2]

ShiftedTime(pc, j) == [i \in 1..Len(pc.t) |-> pc.t[i] + pc.bunchdelay[j]]

GetPhysicalUnits(s) ==
    IF IsUnset(s.image_profile) THEN Exc(s, {}, "AttributeError")
    ELSE IF ~TruthyObj(s.image_profile) THEN Ret(s, {"NoImageProfile"}, None)
    ELSE Ret(s, {}, Some(s.image_profile.v.physical_units))

(* what GetFullResults hands back when there is no pulse characterization *)
GetFullResults(s) ==
    IF IsUnset(s.pulse_characterization) THEN Exc(s, {}, "AttributeError")
    ELSE IF ~TruthyObj(s.pulse_characterization)
    THEN Ret(s, {"NoPulseCharacterization"}, s.pulse_characterization)
    ELSE Ret(s, {}, s.pulse_characterization)

RECURSIVE PulseDelayLoop(_, _, _, _, _)
PulseDelayLoop(s, pc, method, j, peakpos) ==
    IF j > pc.num_bunches THEN Ret(s, {}, Some(peakpos))
    ELSE IF method \notin SupportedMethods THEN Ret(s, {"MethodNotSupported"}, None)
    ELSE LET power == SelectedPower(pc, method, j)
             fit == FitAround(ShiftedTime(pc, j), power, NpArgmax(power))
         IN IF fit.k = "raise" THEN Ret(s, {}, None)
            ELSE PulseDelayLoop(s, pc, method, j + 1, Append(peakpos, fit.v))

PulseDelay(s, method) ==
    IF IsUnset(s.pulse_characterization) THEN Exc(s, {}, "AttributeError")
    ELSE IF ~TruthyObj(s.pulse_characterization)
    THEN Ret(s, {"NoPulseCharacterization"}, None)
    ELSE IF s.pulse_characterization.v.num_bunches < 1 THEN Ret(s, {}, Some(<<>>))
    ELSE PulseDelayLoop(s, s.pulse_characterization.v, method, 1, <<>>)

AboveThresholdStrictly(power) ==
    LET m == power[NpArgmax(power) + 1] IN {i \in 1..Len(power) : 2 * power[i] > m}

(* lines 415-418 for one bunch: the times whose power is at least half the
   maximum, and the width they span *)
AboveThreshold(power) ==
    LET m == power[NpArgmax(power) + 1] IN {i \in 1..Len(power) : 2 * power[i] >= m}

RECURSIVE PulseFWHMLoop(_, _, _, _, _)
PulseFWHMLoop(s, pc, method, j, peakwidth) ==
    IF j > pc.num_bunches THEN Ret(s, {}, Some(peakwidth))
    ELSE IF method \notin SupportedMethods THEN Ret(s, {"MethodNotSupported"}, None)
    ELSE LET power == SelectedPower(pc, method, j)
             t == ShiftedTime(pc, j)
             above == AboveThreshold(power)
             first == CHOOSE i \in above : \A k \in above : i <= k
             last == CHOOSE i \in above : \A k \in above : k <= i
         IN IF above = {} \/ Len(t) < 2 THEN Exc(s, {}, "IndexError")
            ELSE PulseFWHMLoop(s, pc, method, j + 1,
                               Append(peakwidth, t[last] - t[first] + (t[2] - t[1])))

PulseFWHM(s, method) ==
    IF IsUnset(s.pulse_characterization) THEN Exc(s, {}, "AttributeError")
    ELSE IF ~TruthyObj(s.pulse_characterization)
    THEN Ret(s, {"NoPulseCharacterization"}, None)
    ELSE IF s.pulse_characterization.v.num_bunches < 1 THEN Ret(s, {}, Some(<<>>))
    ELSE PulseFWHMLoop(s, s.pulse_characterization.v, method, 1, <<>>)

(* lines 600-616: the time rows are built for self.num_bunches bunches *)
XRayPower(s, method) ==
    IF IsUnset(s.pulse_characterization) THEN Exc(s, {}, "AttributeError")
    ELSE IF ~TruthyObj(s.pulse_characterization)
    THEN Ret(s, {"NoPulseCharacterization"}, Some(<<None, None>>))
    ELSE LET pc == s.pulse_characterization.v IN
         IF s.num_bunches.k # "val" THEN Exc(s, {}, "TypeError")
         ELSE IF s.num_bunches.v > Len(pc.bunchdelay) THEN Exc(s, {}, "IndexError")
         ELSE LET t == [j \in 1..s.num_bunches.v |-> ShiftedTime(pc, j)] IN
              IF method \notin SupportedMethods
              THEN Ret(s, {"MethodNotSupported"}, Some(<<Some(t), None>>))
              ELSE Ret(s, {}, Some(<<Some(t),
                                     Some([j \in 1..pc.num_bunches |->
                                             SelectedPower(pc, method, j)])>>))

XRayEnergyPerBunch(s, method) ==
    IF IsUnset(s.pulse_characterization) THEN Exc(s, {}, "AttributeError")
    ELSE IF ~TruthyObj(s.pulse_characterization)
    THEN Ret(s, {"NoPulseCharacterization"}, None)
    ELSE LET pc == s.pulse_characterization.v IN
         IF method = "RMS" THEN Ret(s, {}, Some(pc.lasingenergyperbunchERMS))
         ELSE IF method = "COM" THEN Ret(s, {}, Some(pc.lasingenergyperbunchECOM))
         ELSE IF method = "RMSCOM"
         THEN Ret(s, {}, Some([j \in 1..Len(pc.lasingenergyperbunchECOM) |->
                 (pc.lasingenergyperbunchECOM[j] + pc.lasingenergyperbunchERMS[j]) \div 2]))
         ELSE Ret(s, {"MethodNotSupported"}, None)

(* line 682: what ReconstructionAgreement hands back without a pulse
   characterization *)
NoAgreement == Some(Frac(0, 1))

ReconstructionAgreement(s) ==
    IF IsUnset(s.pulse_characterization) THEN Exc(s, {}, "AttributeError")
    ELSE IF ~TruthyObj(s.pulse_characterization)
    THEN Ret(s, {"NoPulseCharacterization"}, NoAgreement)
    ELSE Ret(s, {}, Some(NpMean(s.pulse_characterization.v.powerAgreement)))

(* line 451 reads the profile to fit from self._pulse_characterization: None
   has no attribute image_stats, and a PulseCharacterization has the fields
   listed at lines 320-337, image_stats not among them *)
CurrentFitProfile(s, j) ==
    IF TruthyObj(s.pulse_characterization)
       /\ "image_stats" \in DOMAIN s.pulse_characterization.v
    THEN Some(s.pulse_characterization.v.image_stats[j].xProfile)
    ELSE Raised("AttributeError")

RECURSIVE CurrentDelayLoop(_, _, _)
CurrentDelayLoop(s, j, peakpos) ==
    LET ip == s.image_profile.v IN
    IF j > s.num_bunches.v THEN Ret(s, {}, Some(peakpos))
    ELSE IF j > Len(ip.image_stats) THEN Exc(s, {}, "IndexError")
    ELSE LET central == NpArgmax(ip.image_stats[j].xProfile)
             y == CurrentFitProfile(s, j)
             fit == IF y.k = "raise" THEN y
                    ELSE FitAround(ip.physical_units.xfs, y.v, central)
         IN IF fit.k = "raise" THEN Ret(s, {}, None)
            ELSE CurrentDelayLoop(s, j + 1, Append(peakpos, fit.v))

InterBunchPulseDelayBasedOnCurrent(s) ==
    IF IsUnset(s.image_profile) THEN Exc(s, {}, "AttributeError")
    ELSE IF ~TruthyObj(s.image_profile) THEN Ret(s, {"NoImageProfile"}, None)
    ELSE IF s.num_bunches.k # "val" THEN Exc(s, {}, "TypeError")
    ELSE CurrentDelayLoop(s, 1, <<>>)

ProcessedXTCAVImage(s) ==
    IF IsUnset(s.processed_image) \/ (s.processed_image = None /\ IsUnset(s.rawimage))
    THEN Exc(s, {}, "AttributeError")
    ELSE IF s.processed_image = None THEN Ret(s, {"ImageNotProcessed"}, s.rawimage)
    ELSE Ret(s, {}, s.processed_image)

-----------------------------------------------------------------------------
(* Actions: one per public method *)

Call(op, arg, o, result) ==
    /\ self' = o.s
    /\ warned' = o.warn
    /\ ret' = Outcome(op, arg, o, result)
    /\ UNCHANGED ctor

SetDataSource ==
    \E fd \in FoundDarkPaths, fl \in FoundLasingOffPaths :
        Call("SetDataSource", "", SetDataSourceBody(self, fd, fl), None)

CallLoadDarkReference ==
    \E fd \in FoundDarkPaths :
        Call("LoadDarkReference", "", LoadDarkReference(self, fd), None)

CallLoadLasingOffReference ==
    \E fl \in FoundLasingOffPaths :
        Call("LoadLasingOffReference", "", LoadLasingOffReference(self, fl), None)

ProcessesEvent(e) ==
    LET r == processEventBody(self, e) IN Call("processEvent", e.id, r.o, r.result)

processEvent == \E e \in Events : ProcessesEvent(e)

Query(op, arg, r) == Call(op, arg, r.o, r.result)

CallGetPhysicalUnits == Query("GetPhysicalUnits", "", GetPhysicalUnits(self))

CallGetFullResults == Query("GetFullResults", "", GetFullResults(self))

CallPulseDelay == \E m \in Methods : Query("PulseDelay", m, PulseDelay(self, m))

CallPulseFWHM == \E m \in Methods : Query("PulseFWHM", m, PulseFWHM(self, m))

CallXRayPower == \E m \in Methods : Query("XRayPower", m, XRayPower(self, m))

CallXRayEnergyPerBunch ==
    \E m \in Methods : Query("XRayEnergyPerBunch", m, XRayEnergyPerBunch(self, m))

CallReconstructionAgreement ==
    Query("ReconstructionAgreement", "", ReconstructionAgreement(self))

CallInterBunchPulseDelayBasedOnCurrent ==
    Query("InterBunchPulseDelayBasedOnCurrent", "", InterBunchPulseDelayBasedOnCurrent(self))

CallProcessedXTCAVImage == Query("ProcessedXTCAVImage", "", ProcessedXTCAVImage(self))

-----------------------------------------------------------------------------
(* Specifications *)

NoCall == [op |-> "__init__", arg |-> "", val |-> None]

InitWith(parset) ==
    /\ ctor \in CtorArgs(parset)
    /\ self = Construct(ctor)
    /\ ret = NoCall
    /\ warned = {}

(* every combination of caller-supplied tunables *)
AllCallerPars == [ParamNames -> {"None", "falsy", "value"}]

ParsOf(choice) ==
    [p \in ParamNames |->
       CASE choice[p] = "None" -> None
         [] choice[p] = "falsy" -> Some(CallerFalsy[p])
         [] OTHER -> Some(CallerValue[p])]

(* the session-setup methods alone, over every combination of caller values *)
InitResolve == InitWith({ParsOf(c) : c \in AllCallerPars})

NextResolve ==
    \/ SetDataSource
    \/ CallLoadDarkReference
    \/ CallLoadLasingOffReference

SpecResolve == InitResolve /\ [][NextResolve]_vars

(* setup and events, for a caller who leaves everything to the calibration
   store and one who passes a bunch count, two tunables and both paths *)
MainCtors ==
    {[num_bunches |-> None, par |-> [p \in ParamNames |-> None],
      darkreferencepath |-> None, lasingoffreferencepath |-> None],
     [num_bunches |-> Some(2),
      par |-> [p \in ParamNames |-> IF p \in {"snrfilter", "islandsplitmethod"}
                                    THEN Some(CallerValue[p]) ELSE None],
      darkreferencepath |-> Some("caller/pedestals"),
      lasingoffreferencepath |-> Some("caller/lasingoffreference")]}

Init ==
    /\ ctor \in MainCtors
    /\ self = Construct(ctor)
    /\ ret = NoCall
    /\ warned = {}

-----------------------------------------------------------------------------
(* Derived metrics over the profiles and power traces an event can leave
   behind.  ProcessXTCAVImage and ProcessLasingSingleShot are outside this
   file, so the queries are exercised on every shape of result: a maximum at
   any sample, two maxima, and a pulse characterization of no bunch, the case
   lines 357-359 and 397-399 provide for. *)

(* range(a, b) *)
PyRange(a, b) == [i \in 1..Max(b - a, 0) |-> a + i - 1]

(* line 523, range(0, N/2+1) + range(-N/2+1, 0): the frequency bins in units
   of df; `/` between ints floors, and -N/2 is (-N)/2 *)
FrequencyBins(N) == PyRange(0, N \div 2 + 1) \o PyRange((-N) \div 2 + 1, 0)

(* targetwidthfs: 0, and the default 20 *)
TargetWidths == {"0", "20"}

(* thresholdfactor: the default 0, and 4/5 *)
ThresholdFactors == {Frac(0, 1), Frac(4, 5)}

(* line 525, ffilter = 1-exp(-(f*targetwidthfs)**6) at bin k: with width 0
   it is 1-exp(0) = 0 at every bin; with width 20 it is 0 at bin 0 and, for an
   axis of at most ten femtoseconds, (f*20)**6 > 64 at every other bin, where
   the double 1-exp(-x) is exactly 1 *)
FilterGain(k, targetwidthfs) == IF targetwidthfs = "0" \/ k = 0 THEN 0 ELSE 1

(* lines 530-531, profile - np.max(profile)*thresholdfactor with the negative
   samples set to 0, in units of 1/thresholdfactor.d: a new array *)
Thresholded(profile, thresholdfactor) ==
    LET top == profile[NpArgmax(profile) + 1] IN
    [i \in 1..Len(profile) |->
       Max(thresholdfactor.d * profile[i] - thresholdfactor.n * top, 0)]

(* line 532, np.fft.ifft(np.fft.fft(profilef)*ffilter), in units of 1/N: a
   gain of 0 at every bin leaves zeros, a gain of 0 at bin 0 and 1 elsewhere
   takes the mean off every sample *)
FourierFiltered(profilef, ffilter) ==
    IF \A k \in 1..Len(ffilter) : ffilter[k] = 0
    THEN [i \in 1..Len(profilef) |-> 0]
    ELSE [i \in 1..Len(profilef) |-> Len(profilef) * profilef[i] - SumSeq(profilef)]

FourierFitsFiltered(profile, profilef) == profilef

(* line 545: the samples handed to polyfit *)
FourierFitProfile(profile, profilef) == profile

RECURSIVE FourierDelayLoop(_, _, _, _, _)
FourierDelayLoop(s, targetwidthfs, thresholdfactor, j, peakpos) ==
    LET ip == s.image_profile.v
        t == ip.physical_units.xfs
    IN
    IF j > s.num_bunches.v THEN Ret(s, {}, Some(peakpos))
    ELSE IF j > Len(ip.image_stats) THEN Exc(s, {}, "IndexError")
    ELSE IF Len(FrequencyBins(Len(t))) # Len(ip.image_stats[j].xProfile)
    THEN Exc(s, {}, "ValueError")
    ELSE LET profile == ip.image_stats[j].xProfile
             f == FrequencyBins(Len(t))
             ffilter == [k \in 1..Len(f) |-> FilterGain(f[k], targetwidthfs)]
             profilef == FourierFiltered(Thresholded(profile, thresholdfactor), ffilter)
             central == NpArgmax(profilef)
             fit == FitAround(t, FourierFitProfile(profile, profilef), central)
         IN IF fit.k = "raise" THEN Ret(s, {}, None)
            ELSE FourierDelayLoop(s, targetwidthfs, thresholdfactor, j + 1,
                                  Append(peakpos, fit.v))

InterBunchPulseDelayBasedOnCurrentFourierFiltered(s, targetwidthfs, thresholdfactor) ==
    IF IsUnset(s.image_profile) THEN Exc(s, {}, "AttributeError")
    ELSE IF ~TruthyObj(s.image_profile) THEN Ret(s, {"NoImageProfile"}, None)
    ELSE IF Abs(s.image_profile.v.physical_units.xfsPerPix)
              * Len(s.image_profile.v.physical_units.xfs) = 0
    THEN Ret(s, {}, None)
    ELSE IF s.num_bunches.k # "val" THEN Exc(s, {}, "TypeError")
    ELSE FourierDelayLoop(s, targetwidthfs, thresholdfactor, 1, <<>>)

CallInterBunchPulseDelayBasedOnCurrentFourierFiltered ==
    \E w \in TargetWidths, f \in ThresholdFactors :
        Query("InterBunchPulseDelayBasedOnCurrentFourierFiltered",
              [targetwidthfs |-> w, thresholdfactor |-> f],
              InterBunchPulseDelayBasedOnCurrentFourierFiltered(self, w, f))

(* arguments n and filterwith (default 7) of lines 458 *)
PeakCounts == {1, 2}

FilterWidths == {2, 7}

(* 16 * (1 - 2**-m) for whole m, to the nearest whole number *)
SuppressionTable(m) ==
    CASE m = 0 -> 0 [] m = 1 -> 8 [] m = 2 -> 12 [] m = 3 -> 14 [] m = 4 -> 15
      [] OTHER -> 16

(* line 491 at one sample: 1-exp(-(t-peak)**2/(filterwith/(2*sqrt(log(2))))**2)
   is 1 - 2**-q with q = (2*(t-peak)/filterwith)**2.  The value is kept in
   sixteenths: exact to the nearest sixteenth where q is whole, interpolated
   in between. *)
SuppressionFactor(ti, peak, filterwith) ==
    LET dn == ti * peak.d - peak.n
        a == 4 * dn * dn
        b == filterwith * filterwith * peak.d * peak.d
        m == a \div b
    IN SuppressionTable(m)
         + ((SuppressionTable(m + 1) - SuppressionTable(m)) * (a % b)) \div b

NotSuppressed(working, t, peak, filterwith) == working

(* lines 491-492, profile = profile*filter, in units of 1/16: a peak at
   infinity leaves the profile as it is, a peak that is not a number leaves
   no number in it *)
Suppressed(working, t, peak, filterwith) ==
    IF peak.d = 0
    THEN [nan |-> working.nan \/ peak.n = 0,
          y |-> [i \in 1..Len(working.y) |-> 16 * working.y[i]]]
    ELSE [nan |-> working.nan,
          y |-> [i \in 1..Len(working.y) |->
                   working.y[i] * SuppressionFactor(t[i], peak, filterwith)]]

(* lines 479-496 for one bunch: the n peaks, or None when the first fit
   fails; a later fit that fails leaves nan and the working profile as it is *)
RECURSIVE BunchPeaks(_, _, _, _, _, _)
BunchPeaks(t, working, filterwith, n, k, peaks) ==
    IF k >= n THEN Some(peaks)
    ELSE LET central == IF working.nan THEN 0 ELSE NpArgmax(working.y)
             fit == FitAround(t, working.y, central)
         IN IF fit.k = "raise"
            THEN (IF k = 0 THEN None
                  ELSE BunchPeaks(t, working, filterwith, n, k + 1,
                                  Append(peaks, Frac(0, 0))))
            ELSE BunchPeaks(t, Suppressed(working, t, fit.v, filterwith), filterwith,
                            n, k + 1, Append(peaks, fit.v))

RECURSIVE MultipleDelayLoop(_, _, _, _, _)
MultipleDelayLoop(s, n, filterwith, j, peakpos) ==
    LET ip == s.image_profile.v IN
    IF j > s.num_bunches.v THEN Ret(s, {}, Some(peakpos))
    ELSE IF j > Len(ip.image_stats) THEN Exc(s, {}, "IndexError")
    ELSE LET profile == [nan |-> FALSE, y |-> ip.image_stats[j].xProfile]
             peaks == BunchPeaks(ip.physical_units.xfs, profile, filterwith, n, 0, <<>>)
         IN IF peaks = None THEN Ret(s, {}, None)
            ELSE MultipleDelayLoop(s, n, filterwith, j + 1, Append(peakpos, peaks.v))

InterBunchPulseDelayBasedOnCurrentMultiple(s, n, filterwith) ==
    IF IsUnset(s.image_profile) THEN Exc(s, {}, "AttributeError")
    ELSE IF ~TruthyObj(s.image_profile) THEN Ret(s, {"NoImageProfile"}, None)
    ELSE IF s.num_bunches.k # "val" THEN Exc(s, {}, "TypeError")
    ELSE MultipleDelayLoop(s, n, filterwith, 1, <<>>)

CallInterBunchPulseDelayBasedOnCurrentMultiple ==
    \E n \in PeakCounts, w \in FilterWidths :
        Query("InterBunchPulseDelayBasedOnCurrentMultiple",
              [n |-> n, filterwith |-> w],
              InterBunchPulseDelayBasedOnCurrentMultiple(self, n, w))

(* setup, events and every query *)
Next ==
    \/ SetDataSource
    \/ CallLoadDarkReference
    \/ CallLoadLasingOffReference
    \/ processEvent
    \/ CallGetPhysicalUnits
    \/ CallGetFullResults
    \/ CallPulseDelay
    \/ CallPulseFWHM
    \/ CallXRayPower
    \/ CallXRayEnergyPerBunch
    \/ CallReconstructionAgreement
    \/ CallInterBunchPulseDelayBasedOnCurrent
    \/ CallProcessedXTCAVImage
    \/ CallInterBunchPulseDelayBasedOnCurrentFourierFiltered
    \/ CallInterBunchPulseDelayBasedOnCurrentMultiple

Spec == Init /\ [][Next]_vars

(* shape c in 1..n: one maximum, at sample c; shape 0: two maxima of
   different height with a dip between them and a foot at the first sample *)
MetricShapes == 0..ProfLen

ShapeProfile(shape, n) ==
    [i \in 1..n |->
       IF shape = 0
       THEN (IF i = n - 1 THEN n ELSE IF i = 2 THEN n - 1
             ELSE IF i = 1 THEN (n - 1) \div 2 ELSE 1)
       ELSE n - Abs(i - shape)]

(* an event the pipeline accepts, whose results the shapes then replace *)
MetricEvent ==
    [id |-> 1, img |-> Some([pix |-> <<0, CameraSaturationValue - 1>>]),
     shot_valid |-> TRUE, contains_data |-> TRUE, xN |-> ProfLen, yN |-> MIN_ROI_SIZE,
     stats |-> "mid", phys_valid |-> TRUE, xfsPerPix |-> 1, pulse |-> None]

PulseCases == {"none", "nobunch", "bunches"}

(* the pipeline after session setup and processEvent, its image profile
   holding current profiles of shapes a[1..num_bunches]; the power traces, in
   even numbers of GW, follow shape a[j] under COM and shape b under RMS *)
MetricState(c, a, pulse, b) ==
    LET s0 == SetDataSourceBody(Construct(c), Some("calib/pedestals"),
                                Some("calib/lasingoffreference")).s
        s1 == processEventReady(s0, MetricEvent).o.s
        nb == s1.num_bunches.v
        ip == [s1.image_profile.v EXCEPT
                 !.image_stats = [j \in 1..nb |->
                    [@[j] EXCEPT !.xProfile = ShapeProfile(a[j], ProfLen)]]]
        avg == s1.lasingoffreference.v.averaged_profiles
        trace(shape, lift) == [i \in 1..ProfLen |-> 2 * ShapeProfile(shape, ProfLen)[i] + lift]
        pc == CASE pulse = "none" -> None
                [] pulse = "nobunch" -> Some(PulseCharacterization(ip, avg, <<>>, <<>>))
                [] OTHER -> Some(PulseCharacterization(ip, avg,
                                    [j \in 1..nb |-> trace(a[j], 0)],
                                    [j \in 1..nb |-> trace(b, 2 * j)]))
    IN [s1 EXCEPT !.image_profile = Some(ip), !.pulse_characterization = pc]

ResolvedBunches(c) ==
    SetDataSourceBody(Construct(c), Some("calib/pedestals"),
                      Some("calib/lasingoffreference")).s.num_bunches.v

InitMetrics ==
    /\ ctor \in MainCtors
    /\ \E a \in [1..ResolvedBunches(ctor) -> MetricShapes],
          pulse \in PulseCases, b \in MetricShapes :
          /\ pulse # "bunches" => b = 0
          /\ self = MetricState(ctor, a, pulse, b)
    /\ ret = [op |-> "processEvent", arg |-> 1,
              val |-> Some(TruthyObj(self.pulse_characterization))]
    /\ warned = {}

NextMetrics ==
    \/ CallGetPhysicalUnits
    \/ CallGetFullResults
    \/ CallPulseDelay
    \/ CallPulseFWHM
    \/ CallXRayPower
    \/ CallXRayEnergyPerBunch
    \/ CallReconstructionAgreement
    \/ CallInterBunchPulseDelayBasedOnCurrent
    \/ CallProcessedXTCAVImage
    \/ CallInterBunchPulseDelayBasedOnCurrentFourierFiltered
    \/ CallInterBunchPulseDelayBasedOnCurrentMultiple

SpecMetrics == InitMetrics /\ [][NextMetrics]_vars

-----------------------------------------------------------------------------
(* Properties *)

SetupCompleted == ret.op = "SetDataSource" /\ ret.val.k # "raise"

RefLoaded == TruthyObj(self.lasingoffreference)

RefParameters == self.lasingoffreference.v.parameters

(* C1: after SetDataSource each of the seven tunable parameters holds the
   caller's constructor value if the caller gave one (anything but None), else
   the loaded lasing-off reference's value, else the default.  (The claim says
   the same of darkreferencepath, which LoadDarkReference fills from the
   calibration store before the reference is read; it is left out here so
   that the formula fails on the tunables alone.) *)
C1_Precedence ==
    SetupCompleted =>
        \A p \in ParamNames :
            self.par[p] = IF ctor.par[p] # None THEN ctor.par[p]
                          ELSE IF RefLoaded THEN Some(RefParameters.par[p])
                          ELSE Some(DefaultValue[p])

(* C2: whenever a lasing-off reference has been loaded, num_bunches is the
   reference's bunch count, and the bunch-count warning was emitted exactly
   when the caller supplied a bunch count different from the reference's. *)
C2_BunchCount ==
    (ret.op \in {"SetDataSource", "LoadLasingOffReference"} /\ ret.val.k # "raise"
     /\ RefLoaded) =>
        /\ self.num_bunches = Some(RefParameters.num_bunches)
        /\ ("NumBunchesDiffer" \in warned) <=>
              (ctor.num_bunches # None /\ ctor.num_bunches.v # RefParameters.num_bunches)

(* an event whose image is available and whose shot-to-shot parameters,
   denoised image and calibration are valid *)
UsableEvent(e) == e.img # None /\ e.shot_valid /\ e.contains_data /\ e.phys_valid

(* C3: for a usable event, processed by a pipeline whose environment is set
   and whose bunch count is resolved, an ImageProfile exists after
   processEvent if and only if the maximum raw pixel is strictly below the
   saturation value and the ROI has xN and yN of at least MIN_ROI_SIZE,
   whatever the sign of the time per pixel. *)
C3_ProfileIffUsable ==
    [][\A e \in Events :
         (self.envset /\ HasBunches(self) /\ UsableEvent(e) /\ ProcessesEvent(e)) =>
            (TruthyObj(self'.image_profile) <=>
                (NpMax(e.img.v) < self.saturation_value.v
                 /\ e.xN >= MIN_ROI_SIZE /\ e.yN >= MIN_ROI_SIZE))]_vars

(* C4: for a usable, unsaturated event with a large enough ROI, the stored
   ImageProfile has the time axis and every bunch's xProfile, yCOMslice and
   yRMSslice reversed when the time per pixel is negative, and none of them
   reversed otherwise. *)
C4_MirrorEveryBunch ==
    [][\A e \in Events :
         (self.envset /\ HasBunches(self) /\ UsableEvent(e)
          /\ NpMax(e.img.v) < self.saturation_value.v
          /\ e.xN >= MIN_ROI_SIZE /\ e.yN >= MIN_ROI_SIZE
          /\ ProcessesEvent(e)) =>
            LET stats == ExtractImageStats(self, e)
                pu == CalculatePhysicalUnits(e, stats)
                flip(a) == IF e.xfsPerPix < 0 THEN Reverse(a) ELSE a
            IN /\ TruthyObj(self'.image_profile)
               /\ self'.image_profile.v.physical_units.xfs = flip(pu.xfs)
               /\ \A j \in 1..self.num_bunches.v :
                    /\ self'.image_profile.v.image_stats[j].xProfile = flip(stats[j].xProfile)
                    /\ self'.image_profile.v.image_stats[j].yCOMslice = flip(stats[j].yCOMslice)
                    /\ self'.image_profile.v.image_stats[j].yRMSslice = flip(stats[j].yRMSslice)]_vars

(* the event a stored ImageProfile / PulseCharacterization was computed from *)
ProfileEvent == self.image_profile.v.shot_to_shot.event

PulseEvent == self.pulse_characterization.v.image_profile.shot_to_shot.event

(* C5: when the most recent processEvent call returned False, no
   ImageProfile, processed image or PulseCharacterization of another event
   than the one just passed is stored. *)
C5_NoStaleResult ==
    (ret.op = "processEvent" /\ ret.val = Some(FALSE)) =>
        /\ TruthyObj(self.image_profile) => ProfileEvent = ret.arg
        /\ TruthyObj(self.processed_image) => TruthyObj(self.image_profile)
        /\ TruthyObj(self.pulse_characterization) => PulseEvent = ret.arg

(* C6: after a processEvent call on a ready pipeline (one that returned), a
   PulseCharacterization is stored only with the ImageProfile of the same
   event and a loaded lasing-off reference, and the call returned True exactly
   when a PulseCharacterization is stored, False otherwise. *)
C6_PulseOnlyWithProfile ==
    (ret.op = "processEvent" /\ self.envset /\ ret.val.k # "raise") =>
        /\ TruthyObj(self.pulse_characterization) =>
              /\ TruthyObj(self.image_profile)
              /\ self.pulse_characterization.v.image_profile = self.image_profile.v
              /\ ProfileEvent = ret.arg
              /\ RefLoaded
        /\ ret.val = Some(TruthyObj(self.pulse_characterization))

(* C7: SetDataSource does not raise; a reference it did not find is absent
   and was warned about; without a lasing-off reference the parameters the
   caller did not give are the defaults; and without a dark reference the
   processed image of an event is computed from the raw image itself. *)
C7_MissingReferences ==
    /\ ret.op = "SetDataSource" =>
         /\ ret.val.k # "raise"
         /\ self.darkreference = None => "DarkReferenceNotFound" \in warned
         /\ self.lasingoffreference = None =>
              /\ "LasingOffReferenceNotFound" \in warned
              /\ self.num_bunches = IF ctor.num_bunches # None THEN ctor.num_bunches
                                    ELSE Some(DefaultNumBunches)
              /\ \A p \in ParamNames :
                   self.par[p] = IF ctor.par[p] # None THEN ctor.par[p]
                                 ELSE Some(DefaultValue[p])
    /\ (ret.op = "processEvent" /\ TruthyObj(self.processed_image)
        /\ self.darkreference = None) =>
           self.processed_image.v.img = self.rawimage.v

ReferenceQueries ==
    {"GetFullResults", "PulseDelay", "PulseFWHM", "XRayPower", "XRayEnergyPerBunch",
     "ReconstructionAgreement"}

(* C8: without a PulseCharacterization (event rejected, no reference, or no
   event processed yet) every reference-dependent query returns None, and
   XRayPower (None, None), without raising. *)
C8_NoResultQueries ==
    (ret.op \in ReferenceQueries /\ ~TruthyObj(self.pulse_characterization)) =>
        IF ret.op = "XRayPower"
        THEN ret.val.k = "val" /\ ret.val.v = <<None, None>>
        ELSE ret.val = None

(* the quadratic-vertex fit of bunch j's stored xProfile around its maximum *)
CurrentFit(j) ==
    LET ip == self.image_profile.v IN
    FitAround(ip.physical_units.xfs, ip.image_stats[j].xProfile,
              NpArgmax(ip.image_stats[j].xProfile))

(* C9: with an ImageProfile (of as many bunches as num_bunches, each with a
   solvable fit), InterBunchPulseDelayBasedOnCurrent returns one delay per
   bunch, the vertex fitted on that bunch's xProfile of the ImageProfile,
   with or without a PulseCharacterization. *)
C9_CurrentDelay ==
    (/\ ret.op = "InterBunchPulseDelayBasedOnCurrent"
     /\ TruthyObj(self.image_profile)
     /\ HasBunches(self)
     /\ self.num_bunches.v = Len(self.image_profile.v.image_stats)
     /\ \A j \in 1..self.num_bunches.v : CurrentFit(j).k = "val") =>
        /\ ret.val.k = "val"
        /\ ret.val.v = [j \in 1..self.num_bunches.v |-> CurrentFit(j).v]

(* C10: processEvent on a pipeline whose environment is not set emits the
   warning, returns None (neither True nor False) and leaves every attribute
   of the instance as it was. *)
C10_NotReady ==
    [][(~self.envset /\ ret'.op = "processEvent") =>
          /\ self' = self
          /\ ret'.val = None
          /\ ret'.val \notin {Some(TRUE), Some(FALSE)}
          /\ "EnvironmentNotSet" \in warned']_vars

(* processEvent was called before the environment was set, on an instance
   that already holds a lasing-off reference loaded from the caller's path *)
C10_Witness ==
    /\ ret.op = "processEvent"
    /\ ~self.envset
    /\ RefLoaded
    /\ warned = {"EnvironmentNotSet"}

(* C12: with a pulse characterization stored (of any bunch count, none
   included), PulseDelay, PulseFWHM, XRayPower and XRayEnergyPerBunch called
   with a method other than 'RMS', 'COM', 'RMSCOM' warn that the method is not
   supported and return no result: None, and for XRayPower no power array. *)
C12_UnsupportedMethod ==
    (/\ ret.op \in {"PulseDelay", "PulseFWHM", "XRayPower", "XRayEnergyPerBunch"}
     /\ ret.arg \notin SupportedMethods
     /\ TruthyObj(self.pulse_characterization))
    => /\ "MethodNotSupported" \in warned
       /\ IF ret.op = "XRayPower"
          THEN ret.val.k = "val" /\ ret.val.v[2] = None
          ELSE ret.val = None

HasPulse ==
    /\ TruthyObj(self.pulse_characterization)
    /\ self.pulse_characterization.v.num_bunches >= 1

PulseBunches == 1..self.pulse_characterization.v.num_bunches

(* the arrays XRayPower and XRayEnergyPerBunch return for a method *)
PowerBy(method) == XRayPower(self, method).result.v[2].v

EnergyBy(method) == XRayEnergyPerBunch(self, method).result.v

MeanPower(j) ==
    [i \in 1..Len(PowerBy("COM")[j]) |-> (PowerBy("COM")[j][i] + PowerBy("RMS")[j][i]) \div 2]

BunchTime(j) ==
    [i \in 1..Len(self.pulse_characterization.v.t) |->
       self.pulse_characterization.v.t[i] + self.pulse_characterization.v.bunchdelay[j]]

(* the span from the first to the last sample at or above half the maximum,
   plus one sample step *)
HalfMaxWidth(t, power) ==
    LET top == CHOOSE v \in {power[i] : i \in 1..Len(power)} :
                   \A i \in 1..Len(power) : power[i] <= v
        above == {i \in 1..Len(power) : 2 * power[i] >= top}
        first == CHOOSE i \in above : \A k \in above : i <= k
        last == CHOOSE i \in above : \A k \in above : k <= i
    IN t[last] - t[first] + (t[2] - t[1])

(* C13: under 'RMSCOM', XRayPower returns for every bunch and sample the
   mean of what it returns under 'COM' and under 'RMS', XRayEnergyPerBunch
   the mean of its 'COM' and 'RMS' energies, and PulseDelay and PulseFWHM
   work on that mean power. *)
C13_MeanOfEstimators ==
    (/\ HasPulse
     /\ ret.op \in {"XRayPower", "XRayEnergyPerBunch", "PulseDelay", "PulseFWHM"}
     /\ ret.arg = "RMSCOM" /\ ret.val.k = "val") =>
      /\ ret.op = "XRayPower" =>
            /\ ret.val.v[2].k = "val"
            /\ \A j \in PulseBunches : \A i \in 1..Len(PowerBy("COM")[j]) :
                  2 * ret.val.v[2].v[j][i] = PowerBy("COM")[j][i] + PowerBy("RMS")[j][i]
      /\ ret.op = "XRayEnergyPerBunch" =>
            \A j \in PulseBunches : 2 * ret.val.v[j] = EnergyBy("COM")[j] + EnergyBy("RMS")[j]
      /\ ret.op = "PulseDelay" =>
            \A j \in PulseBunches :
               LET fit == FitAround(BunchTime(j), MeanPower(j), NpArgmax(MeanPower(j)))
               IN fit.k = "val" /\ ret.val.v[j] = fit.v
      /\ ret.op = "PulseFWHM" =>
            \A j \in PulseBunches : ret.val.v[j] = HalfMaxWidth(BunchTime(j), MeanPower(j))

C13_Witness ==
    /\ HasPulse /\ ret.op = "XRayPower" /\ ret.arg = "RMSCOM"
    /\ ret.val.k = "val" /\ ret.val.v[2].k = "val"
    /\ self.pulse_characterization.v.num_bunches = 2
    /\ PowerBy("COM")[2] # PowerBy("RMS")[2]
    /\ ret.val.v[2].v[2] \notin {PowerBy("COM")[2], PowerBy("RMS")[2]}

(* C14: for every bunch j PulseFWHM returns t[last] - t[first] + (t[1] - t[0]),
   t being the master time axis shifted by bunchdelay[j] and first, last the
   smallest and largest sample whose selected power is at least half the
   maximum; samples exactly at half maximum count, and samples below it that
   lie between first and last do not shorten the width. *)
C14_FullWidthHalfMax ==
    (HasPulse /\ ret.op = "PulseFWHM" /\ ret.arg \in SupportedMethods) =>
      /\ ret.val.k = "val"
      /\ Len(ret.val.v) = self.pulse_characterization.v.num_bunches
      /\ \A j \in PulseBunches :
            ret.val.v[j] = HalfMaxWidth(BunchTime(j), PowerBy(ret.arg)[j])

(* a width measured across a dip below half maximum, from a first sample
   that lies exactly at half maximum *)
C14_Witness ==
    /\ HasPulse /\ ret.op = "PulseFWHM" /\ ret.arg \in SupportedMethods
    /\ ret.val.k = "val"
    /\ \E j \in PulseBunches :
          LET power == PowerBy(ret.arg)[j]
              top == power[NpArgmax(power) + 1]
              above == {i \in 1..Len(power) : 2 * power[i] >= top}
          IN /\ \E i \in above : 2 * power[i] = top /\ \A k \in above : i <= k
             /\ \E i \in 1..Len(power), lo \in above, hi \in above :
                   lo < i /\ i < hi /\ i \notin above

FourierOp == "InterBunchPulseDelayBasedOnCurrentFourierFiltered"

HasProfile ==
    /\ TruthyObj(self.image_profile)
    /\ self.num_bunches.k = "val"
    /\ self.num_bunches.v = Len(self.image_profile.v.image_stats)

StoredProfile(j) == self.image_profile.v.image_stats[j].xProfile

(* the thresholded, Fourier-filtered profile of bunch j for the arguments of
   a call *)
FilteredProfile(j, arg) ==
    LET f == FrequencyBins(Len(StoredProfile(j))) IN
    FourierFiltered(Thresholded(StoredProfile(j), arg.thresholdfactor),
                    [k \in 1..Len(f) |-> FilterGain(f[k], arg.targetwidthfs)])

(* the quadratic fit of the stored samples of bunch j around index central *)
StoredFit(j, central) ==
    FitAround(self.image_profile.v.physical_units.xfs, StoredProfile(j), central)

(* the delays of a Fourier-filtered query are the vertices of the fits of the
   stored samples around the maximum of the filtered profile, or None when
   one of these fits cannot be made *)
FourierDelaysFromStored ==
    (HasProfile /\ ret.op = FourierOp) =>
       LET bunches == 1..self.num_bunches.v
           fit == [j \in bunches |->
                     LET central == NpArgmax(FilteredProfile(j, ret.arg))
                     IN StoredFit(j, central)]
       IN IF \A j \in bunches : fit[j].k = "val"
          THEN ret.val = Some([j \in bunches |-> fit[j].v])
          ELSE ret.val = None

(* C16: InterBunchPulseDelayBasedOnCurrentFourierFiltered takes from the
   thresholded, filtered profile only the index of its maximum; the delay of
   each bunch is the vertex of the fit of the stored xProfile samples around
   that index, and the stored image profile is the same after the call, for
   every thresholdfactor. *)
C16_FilterOnlyLocates ==
    /\ []FourierDelaysFromStored
    /\ [][ret'.op = FourierOp => self'.image_profile = self.image_profile]_vars

(* a returned delay that the filtered samples of the same window would not
   have given *)
C16_Witness ==
    /\ HasProfile /\ ret.op = FourierOp /\ ret.val.k = "val"
    /\ Len(ret.val.v) = 2
    /\ ret.arg.thresholdfactor # Frac(0, 1)
    /\ \E j \in 1..2 :
          LET filtered == FilteredProfile(j, ret.arg)
              other == FitAround(self.image_profile.v.physical_units.xfs, filtered,
                                 NpArgmax(filtered))
          IN filtered # StoredProfile(j) /\ other # Some(ret.val.v[j])

MultipleOp == "InterBunchPulseDelayBasedOnCurrentMultiple"

ProfileTime == self.image_profile.v.physical_units.xfs

(* the first peak of bunch j: the fit of its stored profile around its maximum *)
FirstPeak(j) == StoredFit(j, NpArgmax(StoredProfile(j)))

(* the second peak of bunch j: the fit, around its maximum, of the stored
   profile multiplied by the suppression factor around the first peak *)
SecondPeak(j, filterwith) ==
    LET first == FirstPeak(j).v
        working == [i \in 1..Len(StoredProfile(j)) |->
                      IF first.d = 0 THEN StoredProfile(j)[i]
                      ELSE StoredProfile(j)[i]
                             * SuppressionFactor(ProfileTime[i], first, filterwith)]
    IN IF first = Frac(0, 0) THEN Raised("TypeError")
       ELSE FitAround(ProfileTime, working, NpArgmax(working))

PeaksOfBunch(j, arg) ==
    IF arg.n = 1 THEN <<FirstPeak(j).v>>
    ELSE LET second == SecondPeak(j, arg.filterwith)
         IN <<FirstPeak(j).v, IF second.k = "val" THEN second.v ELSE Frac(0, 0)>>

(* the peaks of a multiple-peak query are, bunch by bunch, those found from
   the bunch's own stored profile; None when a first fit cannot be made *)
MultiplePeaksFromStored ==
    (HasProfile /\ ret.op = MultipleOp) =>
       LET bunches == 1..self.num_bunches.v IN
       IF \A j \in bunches : FirstPeak(j).k = "val"
       THEN ret.val = Some([j \in bunches |-> PeaksOfBunch(j, ret.arg)])
       ELSE ret.val = None

(* C17: in InterBunchPulseDelayBasedOnCurrentMultiple the k-th peak of a
   bunch is located from a working profile that starts as a copy of that
   bunch's stored xProfile and has been multiplied by the suppression factor
   around each peak found before for the same bunch; nothing carries over
   from one bunch to the next and the stored image profile is the same after
   the call. *)
C17_PeaksAfterSuppression ==
    /\ []MultiplePeaksFromStored
    /\ [][ret'.op = MultipleOp => self'.image_profile = self.image_profile]_vars

(* two bunches of different profiles, and a second peak found elsewhere than
   the first *)
C17_Witness ==
    /\ HasProfile /\ ret.op = MultipleOp /\ ret.val.k = "val"
    /\ ret.arg.n = 2 /\ Len(ret.val.v) = 2
    /\ StoredProfile(1) # StoredProfile(2)
    /\ ret.val.v[1] # ret.val.v[2]
    /\ \E j \in 1..2 : ret.val.v[j][2].d # 0 /\ ret.val.v[j][2] # ret.val.v[j][1]

CodeFit(t, y) == FitAround(t, y, NpArgmax(y))

(* C11: when a quadratic peak fit fails for some bunch in PulseDelay,
   InterBunchPulseDelayBasedOnCurrentMultiple or
   InterBunchPulseDelayBasedOnCurrentFourierFiltered, no exception reaches
   the caller, and the delay of every other bunch, whose fit succeeds, is
   still reported.  (InterBunchPulseDelayBasedOnCurrent, which the claim also
   names, reports no delay at all and is left to C9.) *)
C11_OtherBunchesReported ==
    /\ (HasPulse /\ ret.op = "PulseDelay" /\ ret.arg \in SupportedMethods) =>
          /\ ret.val.k # "raise"
          /\ \A j \in PulseBunches :
                LET fit == CodeFit(BunchTime(j), PowerBy(ret.arg)[j])
                IN fit.k = "val" => (ret.val.k = "val" /\ ret.val.v[j] = fit.v)
    /\ (HasProfile /\ ret.op = MultipleOp) =>
          /\ ret.val.k # "raise"
          /\ \A j \in 1..self.num_bunches.v :
                FirstPeak(j).k = "val" =>
                   (ret.val.k = "val" /\ ret.val.v[j][1] = FirstPeak(j).v)
    /\ (HasProfile /\ ret.op = FourierOp) =>
          /\ ret.val.k # "raise"
          /\ \A j \in 1..self.num_bunches.v :
                LET fit == StoredFit(j, NpArgmax(FilteredProfile(j, ret.arg)))
                IN fit.k = "val" => (ret.val.k = "val" /\ ret.val.v[j] = fit.v)

(* the vertex of the parabola fitted to the samples max(0, c-2) .. min(N-1, c+2)
   around index c *)
ClippedFit(t, y, c) ==
    PolyfitVertex(SubSeq(t, Max(c - 2, 0) + 1, Min(c + 2, Len(t) - 1) + 1),
                  SubSeq(y, Max(c - 2, 0) + 1, Min(c + 2, Len(y) - 1) + 1)).v

(* C19: in PulseDelay and the current-based delay queries the fit around a
   maximum at index c of a profile of N >= 5 samples uses exactly the samples
   max(0, c-2) .. min(N-1, c+2), wherever the maximum lies: the window is
   clipped at both ends, never empty and never wrapped.
   (InterBunchPulseDelayBasedOnCurrent reports no delay whatever the window,
   see C9, and is left out.) *)
C19_FitWindowClipped ==
    /\ (HasPulse /\ ret.op = "PulseDelay" /\ ret.arg \in SupportedMethods) =>
          ret.val = Some([j \in PulseBunches |->
                            LET power == PowerBy(ret.arg)[j]
                            IN ClippedFit(BunchTime(j), power, NpArgmax(power))])
    /\ (HasProfile /\ ret.op = MultipleOp /\ ret.arg.n = 1) =>
          ret.val = Some([j \in 1..self.num_bunches.v |->
                            <<ClippedFit(ProfileTime, StoredProfile(j),
                                         NpArgmax(StoredProfile(j)))>>])
    /\ (HasProfile /\ ret.op = FourierOp) =>
          ret.val = Some([j \in 1..self.num_bunches.v |->
                            ClippedFit(ProfileTime, StoredProfile(j),
                                       NpArgmax(FilteredProfile(j, ret.arg)))])

EventAndQueryOps ==
    {"processEvent", "GetPhysicalUnits", "GetFullResults", "PulseDelay",
     "PulseFWHM", "XRayPower", "XRayEnergyPerBunch", "ReconstructionAgreement",
     "InterBunchPulseDelayBasedOnCurrent", "ProcessedXTCAVImage",
     FourierOp, MultipleOp}

SessionSetup(s) ==
    <<s.darkreference, s.lasingoffreference, s.roixtcav, s.global_calibration,
      s.saturation_value, s.num_bunches, s.par, s.darkreferencepath,
      s.lasingoffreferencepath, s.envset>>

(* C15: processEvent and every result or derived-metric query leave the
   loaded dark reference, the loaded lasing-off reference, the camera
   calibration (nominal ROI, global calibration, saturation value) and all
   resolved processing parameters as they were before the call. *)
C15_SetupUnchanged ==
    [][ret'.op \in EventAndQueryOps => SessionSetup(self') = SessionSetup(self)]_vars

C15_Witness ==
    /\ ret.op = "processEvent"
    /\ ret.val = Some(TRUE)
    /\ TruthyObj(self.darkreference)
    /\ TruthyObj(self.lasingoffreference)
    /\ TruthyObj(self.image_profile)
    /\ self.image_profile.v.roi # self.roixtcav.v

ResolvedParameters(s) == <<s.num_bunches, s.par, s.darkreferencepath>>

(* C18: parameter resolution against a lasing-off reference is idempotent: a
   run of LoadLasingOffReference on a pipeline that already holds the
   reference it loads leaves num_bunches, the seven tunables and
   darkreferencepath as the first run left them. *)
C18_Idempotent ==
    [][(/\ ret'.op = "LoadLasingOffReference"
        /\ RefLoaded
        /\ self'.lasingoffreference = self.lasingoffreference)
       => ResolvedParameters(self') = ResolvedParameters(self)]_vars

(* a second run: the first one against this reference overwrote the caller's
   bunch count with a warning, this one had nothing to warn about *)
C18_Witness ==
    /\ ret.op = "LoadLasingOffReference"
    /\ ret.val.k # "raise"
    /\ RefLoaded
    /\ TruthyInt(ctor.num_bunches)
    /\ ctor.num_bunches.v # RefParameters.num_bunches
    /\ self.num_bunches = Some(RefParameters.num_bunches)
    /\ \E p \in ParamNames : ctor.par[p] = Some(CallerFalsy[p])
    /\ warned = {}

====
